---------------------------- MODULE Spec2Model ----------------------------
(***************************************************************************)
(* NL-Alert (Home Assistant integration): a model of the alert evaluation  *)
(* in sensor.py.                                                           *)
(*                                                                         *)
(* Python values are tagged records, because one field of a feed payload   *)
(* may hold None, a number, a string, a list or a dict:                    *)
(*     [k |-> "none"]                 None, or an absent key (dict.get)    *)
(*     [k |-> "num", v |-> m, e |-> x]   an int or a float, m * 10^x, with *)
(*                                    m not a multiple of 10 (0 is 0*10^0) *)
(*     [k |-> "str",  s |-> chars]    a string, a sequence of characters   *)
(*     [k |-> "text", s |-> "word"]   a string that is only compared       *)
(*     [k |-> "bool", b |-> b]        True or False                        *)
(*     [k |-> "list", items |-> seq]  a list                               *)
(*     [k |-> "dict", ...fields]      a dict; every feed below says which  *)
(*                                    keys its dict records carry          *)
(* A call that raises is the value [k |-> "raise", exc |-> name].          *)
(***************************************************************************)
EXTENDS Integers, Sequences, FiniteSets, TLC

VARIABLES
    config,          \* location_source, tracker_entity_id, max_radius_m, lat/lon of hass.config
    tracker,         \* hass.states.get(tracker_entity_id)
    now,             \* dt_util.utcnow()
    nl_data,         \* coordinator_nl.data
    amber_data,      \* coordinator_amber.data
    burgernet_data,  \* coordinator_burgernet.data
    sensor_states,   \* hass.states of the entities the binary sensor listens to
    call             \* the evaluation in progress: function, arguments, value

vars == <<config, tracker, now, nl_data, amber_data, burgernet_data, sensor_states, call>>

None == [k |-> "none"]
RECURSIVE Pow10(_)
Pow10(n) == IF n = 0 THEN 1 ELSE 10 * Pow10(n - 1)

RECURSIVE NumDigits(_)
NumDigits(n) == IF n < 10 THEN 1 ELSE 1 + NumDigits(n \div 10)

Abs(n) == IF n < 0 THEN -n ELSE n

\* The number v * 10^e in its normal form (epoch milliseconds exceed 32 bits).
RECURSIVE Dec(_, _)
Dec(v, e) ==
    IF v = 0 THEN [k |-> "num", v |-> 0, e |-> 0]
    ELSE IF v % 10 = 0 THEN Dec(v \div 10, e + 1)
    ELSE [k |-> "num", v |-> v, e |-> e]

Num(n) == Dec(n, 0)

\* The integer that a number of non-negative exponent is.
IntOf(x) == x.v * Pow10(x.e)
Str(s) == [k |-> "str", s |-> s]
Text(s) == [k |-> "text", s |-> s]
Bool(b) == [k |-> "bool", b |-> b]
List(items) == [k |-> "list", items |-> items]
Raise(exc) == [k |-> "raise", exc |-> exc]

\* A key that a dict does not hold has the value Absent: dict.get(key) gives
\* None for it, dict[key] raises KeyError.
Absent == [k |-> "absent"]
DictGet(value) == IF value.k = "absent" THEN None ELSE value
DictItem(value) == IF value.k = "absent" THEN Raise("KeyError") ELSE value

\* The state string of a sensor.
Verdict(s) == [k |-> "verdict", s |-> s]

IsNone(x) == x.k = "none"
IsRaise(x) == x.k = "raise"

\* Python truthiness of a value (`if not area`, `x or {}`).
Truthy(x) ==
    CASE x.k = "none" -> FALSE
      [] x.k = "num" -> x.v # 0
      [] x.k = "str" -> x.s # <<>>
      [] x.k = "text" -> x.s # ""
      [] x.k = "bool" -> x.b
      [] x.k = "list" -> x.items # <<>>
      [] x.k = "dict" -> ~x.empty
      [] OTHER -> TRUE

Min(a, b) == IF a <= b THEN a ELSE b
Max(a, b) == IF a >= b THEN a ELSE b

\* All sequences over S of length 0..n.
SeqsUpTo(S, n) == UNION {[1..m -> S] : m \in 0..n}

(***************************************************************************)
(* Polygon parser: _iter_polygons.  A string is a sequence of characters;  *)
(* "0", "2" and "4" are the digits, "x" stands for any character that is   *)
(* not part of a number.                                                   *)
(***************************************************************************)
Digits == {"0", "2", "4"}
Chars == Digits \cup {" ", ",", "x"}

RECURSIVE SplitFrom(_, _, _, _)
SplitFrom(s, i, cur, sep) ==
    IF i > Len(s) THEN <<cur>>
    ELSE IF s[i] = sep THEN <<cur>> \o SplitFrom(s, i + 1, <<>>, sep)
    ELSE SplitFrom(s, i + 1, Append(cur, s[i]), sep)

\* pair.split(","): every comma separates, empty fields are kept.
str_split_sep(s, sep) == SplitFrom(s, 1, <<>>, sep)

\* entry.strip().split(): runs of whitespace separate, no empty token.
str_split(s) == SelectSeq(str_split_sep(s, " "), LAMBDA t : t # <<>>)

RECURSIVE DigitsValue(_)
DigitsValue(f) ==
    IF f = <<>> THEN 0
    ELSE 10 * DigitsValue(SubSeq(f, 1, Len(f) - 1))
            + (CASE f[Len(f)] = "0" -> 0 [] f[Len(f)] = "2" -> 2 [] OTHER -> 4)

\* float(field): a number, or ValueError.
float(f) ==
    IF f # <<>> /\ \A i \in 1..Len(f) : f[i] \in Digits
    THEN Num(DigitsValue(f))
    ELSE Raise("ValueError")

\* plat, plon = map(float, pair.split(",")): the vertex, or ValueError when a
\* field is no float or the fields are not exactly two.
parse_pair(pair) ==
    LET fields == str_split_sep(pair, ",")
        vals == [i \in 1..Len(fields) |-> float(fields[i])]
    IN  IF Len(fields) = 2 /\ ~IsRaise(vals[1]) /\ ~IsRaise(vals[2])
        THEN [k |-> "pair", p |-> <<IntOf(vals[1]), IntOf(vals[2])>>]
        ELSE Raise("ValueError")

\* A plausible slip: one bad token discards the rest of the polygon.
RECURSIVE parse_polygon_break(_, _)
parse_polygon_break(tokens, i) ==
    IF i > Len(tokens) THEN <<>>
    ELSE LET v == parse_pair(tokens[i])
         IN  IF IsRaise(v) THEN <<>>
             ELSE <<v.p>> \o parse_polygon_break(tokens, i + 1)

\* for pair in entry.strip().split(): try ... polygon.append ... except: continue
RECURSIVE parse_polygon(_, _)
parse_polygon(tokens, i) ==
    IF i > Len(tokens) THEN <<>>
    ELSE LET v == parse_pair(tokens[i])
         IN  IF IsRaise(v) THEN parse_polygon(tokens, i + 1)
             ELSE <<v.p>> \o parse_polygon(tokens, i + 1)

RECURSIVE iter_entries(_, _)
iter_entries(entries, i) ==
    IF i > Len(entries) THEN <<>>
    ELSE IF entries[i].k = "str"
         THEN <<parse_polygon(str_split(entries[i].s), 1)>> \o iter_entries(entries, i + 1)
         ELSE iter_entries(entries, i + 1)

_iter_polygons(area) ==
    IF ~Truthy(area) THEN <<>>
    ELSE LET entries == IF area.k = "list" THEN area.items ELSE <<area>>
         IN  iter_entries(entries, 1)

(***************************************************************************)
(* The parser applied to bounded inputs.                                   *)
(***************************************************************************)
MaxStrLen == 5
MaxEntries == 2

\* "52.1,4.3 52.2,4.4 bad_token 52.3,4.5" in the model's alphabet.
ExampleString == <<"2", ",", "4", " ", "2", ",", "0", " ", "x", " ", "4", ",", "2">>

EmptyDict == [k |-> "dict", empty |-> TRUE]
SomeDict == [k |-> "dict", empty |-> FALSE]

AreaStrings == SeqsUpTo(Chars, MaxStrLen) \cup {ExampleString}

AreaEntries ==
    {Str(<<>>), Str(<<" ">>), Str(<<"x">>), Str(<<"0", ",", "2", " ", "2", ",", "4", "0">>),
     Str(ExampleString), Str(<<"2", ",", "2">>), Num(5), None, SomeDict}

AreaInputs ==
    {Str(s) : s \in AreaStrings}
    \cup {List(l) : l \in SeqsUpTo(AreaEntries, MaxEntries)}
    \cup {None, Num(0), Num(5), EmptyDict, SomeDict}

\* The entities that NLActiveAlertBinarySensor listens to and reads.
SourceEntities == {"sensor.amber_alert", "sensor.burgernet_search", "sensor.nl_alert"}

\* The state machine holds none of them.
NoSensorStates == [e \in SourceEntities |-> None]

NoFeeds ==
    /\ config = None /\ tracker = None /\ now = 0
    /\ sensor_states = NoSensorStates
    /\ nl_data = None /\ amber_data = None /\ burgernet_data = None

InitParse ==
    /\ NoFeeds
    /\ call \in {[fn |-> "_iter_polygons", pc |-> "call", area |-> a, val |-> <<>>] :
                    a \in AreaInputs}

IterPolygons ==
    /\ call.fn = "_iter_polygons" /\ call.pc = "call"
    /\ call' = [call EXCEPT !.pc = "done", !.val = _iter_polygons(call.area)]
    /\ UNCHANGED <<config, tracker, now, nl_data, amber_data, burgernet_data, sensor_states>>

NextParse == IterPolygons

SpecParse == InitParse /\ [][NextParse]_vars

(***************************************************************************)
(* What the parser is to return, stated on the characters of the string:   *)
(* a token is a maximal run of non-blank characters; it is a vertex when   *)
(* it is digits, one comma, digits.                                        *)
(***************************************************************************)
IsToken(s, a, b) ==
    /\ a <= b
    /\ \A i \in a..b : s[i] # " "
    /\ (a = 1 \/ s[a - 1] = " ")
    /\ (b = Len(s) \/ s[b + 1] = " ")

CommaOf(s, a, b) == {c \in (a + 1)..(b - 1) :
                        s[c] = "," /\ \A i \in (a..b) \ {c} : s[i] \in Digits}

VertexTokens(s) == {t \in (1..Len(s)) \X (1..Len(s)) :
                        IsToken(s, t[1], t[2]) /\ CommaOf(s, t[1], t[2]) # {}}

VertexOf(s, t) ==
    LET c == CHOOSE c \in CommaOf(s, t[1], t[2]) : TRUE
    IN  <<DigitsValue(SubSeq(s, t[1], c - 1)), DigitsValue(SubSeq(s, c + 1, t[2]))>>

\* polygon holds, in order, exactly the vertex tokens of s.
PolygonOfString(polygon, s) ==
    /\ Len(polygon) = Cardinality(VertexTokens(s))
    /\ \A t \in VertexTokens(s) :
          polygon[1 + Cardinality({u \in VertexTokens(s) : u[1] < t[1]})] = VertexOf(s, t)

StringEntries(entries) == {i \in 1..Len(entries) : entries[i].k = "str"}

\* polygons holds one polygon per string of entries, in the order of the strings.
OnePolygonPerString(polygons, entries) ==
    /\ Len(polygons) = Cardinality(StringEntries(entries))
    /\ \A i \in StringEntries(entries) :
          PolygonOfString(polygons[Cardinality({j \in StringEntries(entries) : j <= i})],
                          entries[i].s)

ParsedArea == call.fn = "_iter_polygons" /\ call.pc = "done"

\* C6 as stated: one polygon per input string, also for an empty string given
\* alone; zero polygons for input that is no string and no list.
C6_AsClaimed ==
    ParsedArea =>
        CASE call.area.k = "str" -> OnePolygonPerString(call.val, <<call.area>>)
          [] call.area.k = "list" -> OnePolygonPerString(call.val, call.area.items)
          [] OTHER -> call.val = <<>>

\* C6 amended: the parser returns one polygon per input string, in input order,
\* each holding in order exactly the tokens of the string that are two floats;
\* a string inside a sequence, or a non-empty string given alone, that has no
\* such token yields an empty polygon; the empty string given alone, like input
\* that is no string and no list, yields zero polygons.
C6_OnePolygonPerString ==
    ParsedArea =>
        CASE call.area.k = "str" /\ call.area.s # <<>> ->
                OnePolygonPerString(call.val, <<call.area>>)
          [] call.area.k = "list" -> OnePolygonPerString(call.val, call.area.items)
          [] OTHER -> call.val = <<>>

\* The parser has returned the 3-vertex polygon of the example string, and of a
\* sequence holding an empty string.
C6_Witness ==
    /\ ParsedArea
    /\ \/ call.area = Str(ExampleString) /\ call.val = << <<<<2, 4>>, <<2, 0>>, <<4, 2>>>> >>
       \/ call.area = List(<<Str(<<>>), Str(ExampleString)>>) /\ Len(call.val) = 2

(***************************************************************************)
(* Geometry kernel.  Coordinates are integers on a local grid; a vertex is *)
(* <<lat, lon>>.  Quotients are kept exact: a comparison with a quotient   *)
(* is made after multiplying by its divisor.                               *)
(***************************************************************************)
\* Edge i of the polygon runs from vertex i to vertex (i mod n) + 1, which is
\* polygon[i] and polygon[(i + 1) % n] of the 0-based source.
NextVertex(polygon, i) == polygon[(i % Len(polygon)) + 1]

\* if ((lon1 > lon) != (lon2 > lon))
Straddles(lon, lon1, lon2) == (lon1 > lon) # (lon2 > lon)

\* t = (lon - lon1) / (lon2 - lon1); intersect_lat = lat1 + t * (lat2 - lat1);
\* intersect_lat > lat.  The divisor lon2 - lon1 is not zero here.
IntersectAbove(lat, lon, a, b) ==
    LET d == b[2] - a[2]
        num == (lon - a[2]) * (b[1] - a[1])
    IN  IF d > 0 THEN num > (lat - a[1]) * d ELSE num < (lat - a[1]) * d

\* A plausible slip: range(n - 1), the closing edge is never visited.
RECURSIVE pip_loop_open(_, _, _, _, _)
pip_loop_open(lat, lon, polygon, i, inside) ==
    IF i > Len(polygon) - 1 THEN Bool(inside)
    ELSE LET a == polygon[i]
             b == NextVertex(polygon, i)
         IN  IF Straddles(lon, a[2], b[2])
             THEN IF b[2] - a[2] = 0 THEN Raise("ZeroDivisionError")
                  ELSE pip_loop_open(lat, lon, polygon, i + 1,
                                     IF IntersectAbove(lat, lon, a, b) THEN ~inside ELSE inside)
             ELSE pip_loop_open(lat, lon, polygon, i + 1, inside)

\* for i in range(n): ... inside = not inside
RECURSIVE pip_loop(_, _, _, _, _)
pip_loop(lat, lon, polygon, i, inside) ==
    IF i > Len(polygon) THEN Bool(inside)
    ELSE LET a == polygon[i]
             b == NextVertex(polygon, i)
         IN  IF Straddles(lon, a[2], b[2])
             THEN IF b[2] - a[2] = 0 THEN Raise("ZeroDivisionError")
                  ELSE pip_loop(lat, lon, polygon, i + 1,
                                IF IntersectAbove(lat, lon, a, b) THEN ~inside ELSE inside)
             ELSE pip_loop(lat, lon, polygon, i + 1, inside)

_point_in_polygon(lat, lon, polygon) ==
    IF Len(polygon) < 3 THEN Bool(FALSE)
    ELSE pip_loop(lat, lon, polygon, 1, FALSE)

(***************************************************************************)
(* The point-in-polygon test applied to bounded inputs.                    *)
(***************************************************************************)
MaxVertices == 4

VertexPoints == {<<0, 0>>, <<0, 4>>, <<4, 0>>, <<4, 4>>, <<2, 2>>, <<2, 0>>, <<0, 2>>}
TestCoords == {-1, 0, 1, 2, 3, 5}

InitPip ==
    /\ NoFeeds
    /\ call \in {[fn |-> "_point_in_polygon", pc |-> "call", lat |-> x[1], lon |-> x[2],
                  polygon |-> p, val |-> None] :
                    x \in TestCoords \X TestCoords, p \in SeqsUpTo(VertexPoints, MaxVertices)}

PointInPolygon ==
    /\ call.fn = "_point_in_polygon" /\ call.pc = "call"
    /\ call' = [call EXCEPT !.pc = "done",
                            !.val = _point_in_polygon(call.lat, call.lon, call.polygon)]
    /\ UNCHANGED <<config, tracker, now, nl_data, amber_data, burgernet_data, sensor_states>>

NextPip == PointInPolygon

SpecPip == InitPip /\ [][NextPip]_vars

(***************************************************************************)
(* What the test is to return: the even-odd rule, and what it implies for  *)
(* convex polygons and for points outside the bounding box.                *)
(***************************************************************************)
\* Edge i counts as a crossing: the point's longitude lies in the half-open
\* range of the edge's longitudes and the edge passes above the point.
CrossingEdges(lat, lon, polygon) ==
    {i \in 1..Len(polygon) :
        LET lat1 == polygon[i][1]
            lon1 == polygon[i][2]
            lat2 == NextVertex(polygon, i)[1]
            lon2 == NextVertex(polygon, i)[2]
        IN  /\ Min(lon1, lon2) <= lon /\ lon < Max(lon1, lon2)
            /\ \/ lon2 > lon1 /\ lat1 * (lon2 - lon1) + (lon - lon1) * (lat2 - lat1)
                                    > lat * (lon2 - lon1)
               \/ lon2 < lon1 /\ lat1 * (lon1 - lon2) + (lon1 - lon) * (lat2 - lat1)
                                    > lat * (lon1 - lon2)}

\* The polygon without a repeated closing vertex.
Ring(polygon) ==
    IF Len(polygon) > 1 /\ polygon[1] = polygon[Len(polygon)]
    THEN SubSeq(polygon, 1, Len(polygon) - 1)
    ELSE polygon

Cross(a, b, x) == (b[1] - a[1]) * (x[2] - a[2]) - (b[2] - a[2]) * (x[1] - a[1])

\* ring is a convex polygon walked once in the direction sgn, and the point
\* lies strictly on the inner side of every edge.
StrictlyInsideConvex(lat, lon, ring) ==
    /\ Len(ring) >= 3
    /\ \A i, j \in 1..Len(ring) : i # j => ring[i] # ring[j]
    /\ \E sgn \in {-1, 1} :
          /\ \A i, j \in 1..Len(ring) : sgn * Cross(ring[i], NextVertex(ring, i), ring[j]) >= 0
          /\ \A i \in 1..Len(ring) :
                sgn * Cross(ring[i], NextVertex(ring, i), <<lat, lon>>) > 0

OutsideBoundingBox(lat, lon, polygon) ==
    \/ \A i \in 1..Len(polygon) : lat < polygon[i][1]
    \/ \A i \in 1..Len(polygon) : lat > polygon[i][1]
    \/ \A i \in 1..Len(polygon) : lon < polygon[i][2]
    \/ \A i \in 1..Len(polygon) : lon > polygon[i][2]

PipDone == call.fn = "_point_in_polygon" /\ call.pc = "done"

\* C9: pointInPolygon never fails with a division by zero; it is false for
\* fewer than 3 vertices; for 3 or more it is true exactly when an odd number
\* of the cyclic edges count as a crossing (an edge of equal longitudes never
\* does); so it is true for a point strictly inside a convex polygon, closed
\* explicitly or not, and false for a point outside the bounding box.
C9_EvenOdd ==
    PipDone =>
        /\ call.val.k = "bool"
        /\ Len(call.polygon) < 3 => ~call.val.b
        /\ Len(call.polygon) >= 3 =>
              call.val.b = (Cardinality(CrossingEdges(call.lat, call.lon, call.polygon)) % 2 = 1)
        /\ StrictlyInsideConvex(call.lat, call.lon, Ring(call.polygon)) => call.val.b
        /\ (call.polygon # <<>> /\ OutsideBoundingBox(call.lat, call.lon, call.polygon))
              => ~call.val.b

\* The test has returned true for a point strictly inside a square that is
\* not closed explicitly and has two edges of equal longitudes.
C9_Witness ==
    /\ PipDone
    /\ call.polygon = << <<0, 0>>, <<0, 4>>, <<4, 4>>, <<4, 0>> >>
    /\ call.lat = 1 /\ call.lon = 3
    /\ call.val = Bool(TRUE)

(***************************************************************************)
(* Epoch coercion.  Numbers are compared by magnitude first, so that no    *)
(* product leaves the 32 bits of the model checker's integers.             *)
(***************************************************************************)
\* a < b for two numbers.
NumLess(a, b) ==
    LET da == NumDigits(Abs(a.v)) + a.e
        db == NumDigits(Abs(b.v)) + b.e
        e0 == Min(a.e, b.e)
    IN  CASE a.v = 0 -> b.v > 0
          [] b.v = 0 -> a.v < 0
          [] a.v < 0 /\ b.v > 0 -> TRUE
          [] a.v > 0 /\ b.v < 0 -> FALSE
          [] a.v > 0 /\ da # db -> da < db
          [] a.v < 0 /\ da # db -> da > db
          [] OTHER -> a.v * Pow10(a.e - e0) < b.v * Pow10(b.e - e0)

MsThresholdExp == 12
MsDivisorExp == 3

\* float(value) for a value of any type.
to_float(value) ==
    CASE value.k = "num" -> value
      [] value.k = "str" -> float(value.s)
      [] OTHER -> Raise("TypeError")

\* A plausible slip: the milliseconds are recognised from 10^12 on (>=).
_coerce_epoch_seconds_ge(value) ==
    LET ts == to_float(value)
    IN  IF IsRaise(ts) THEN None
        ELSE IF ~NumLess(ts, Dec(1, MsThresholdExp)) THEN Dec(ts.v, ts.e - MsDivisorExp)
        ELSE ts

_coerce_epoch_seconds(value) ==
    LET ts == to_float(value)
    IN  IF IsRaise(ts) THEN None
        ELSE IF NumLess(Dec(1, MsThresholdExp), ts) THEN Dec(ts.v, ts.e - MsDivisorExp)
        ELSE ts

(***************************************************************************)
(* The coercion applied to bounded inputs.                                 *)
(***************************************************************************)
MaxExp == 12

EpochMantissas == {-1, 0, 1, 2, 17, 999, 1001}

EpochNumbers == {Dec(v, e) : v \in EpochMantissas, e \in 0..MaxExp}

EpochInputs ==
    EpochNumbers
    \cup {Str(<<"4", "2">>), Str(<<"x">>), Str(<<>>), None, List(<<>>), List(<<Num(1)>>), SomeDict}

InitEpoch ==
    /\ NoFeeds
    /\ call \in {[fn |-> "_coerce_epoch_seconds", pc |-> "call", value |-> x, val |-> None] :
                    x \in EpochInputs}

CoerceEpochSeconds ==
    /\ call.fn = "_coerce_epoch_seconds" /\ call.pc = "call"
    /\ call' = [call EXCEPT !.pc = "done", !.val = _coerce_epoch_seconds(call.value)]
    /\ UNCHANGED <<config, tracker, now, nl_data, amber_data, burgernet_data, sensor_states>>

NextEpoch == CoerceEpochSeconds

SpecEpoch == InitEpoch /\ [][NextEpoch]_vars

(***************************************************************************)
(* What the coercion is to return.                                         *)
(***************************************************************************)
EpochDone == call.fn = "_coerce_epoch_seconds" /\ call.pc = "done"

\* 1000 * n and n / 1000 for a number n.
Times1000(n) == Dec(n.v, n.e + 3)
Over1000(n) == Dec(n.v, n.e - 3)

\* The numeric value of the argument: a number, or a string of digits.
IsNumeric(value) ==
    \/ value.k = "num"
    \/ value.k = "str" /\ value.s # <<>> /\ \A i \in 1..Len(value.s) : value.s[i] \in Digits

NumericValue(value) == IF value.k = "num" THEN value ELSE Num(DigitsValue(value.s))

ExceedsMsThreshold(n) ==
    /\ n.v > 0
    /\ \/ NumDigits(n.v) + n.e > 13
       \/ NumDigits(n.v) + n.e = 13 /\ n # Dec(1, 12)

\* The number is above 10^9 and at most 10^12: a seconds value whose
\* milliseconds value exceeds the threshold while it does not itself.
SecondsRange(n) ==
    /\ ~ExceedsMsThreshold(n)
    /\ ExceedsMsThreshold(Times1000(n))

ThresholdRule ==
    /\ (IsNumeric(call.value) /\ ExceedsMsThreshold(NumericValue(call.value)))
          => call.val = Over1000(NumericValue(call.value))
    /\ (IsNumeric(call.value) /\ ~ExceedsMsThreshold(NumericValue(call.value)))
          => call.val = NumericValue(call.value)
    /\ ~IsNumeric(call.value) => call.val = None

\* C8 as stated: the threshold rule, and every seconds value s normalizes to
\* the same result as the milliseconds value 1000 * s.
C8_AsClaimed ==
    EpochDone =>
        /\ ThresholdRule
        /\ IsNumeric(call.value)
              => _coerce_epoch_seconds(Times1000(NumericValue(call.value))) = call.val

\* C8 amended: a numeric value is taken as milliseconds exactly when it exceeds
\* 10^12 and is then divided by 1000, otherwise it is returned unchanged; a
\* non-numeric or absent value yields none; a seconds value s with
\* 10^9 < s <= 10^12 and the milliseconds value 1000 * s normalize to the same
\* result.
C8_ThresholdRule ==
    EpochDone =>
        /\ ThresholdRule
        /\ (IsNumeric(call.value) /\ SecondsRange(NumericValue(call.value)))
              => _coerce_epoch_seconds(Times1000(NumericValue(call.value))) = call.val

\* The coercion has returned 1700000000 for 1700000000000.
C8_Witness ==
    /\ EpochDone
    /\ call.value = Dec(17, 11)
    /\ call.val = Dec(17, 8)
    /\ call.val = _coerce_epoch_seconds(Dec(17, 8))

(***************************************************************************)
(* Active window: _is_active and _parse_datetime.  An ISO-8601 string is   *)
(* kept as what it says: a clock reading and, when it names one, a UTC     *)
(* offset, both in hours.  A datetime is the same with a tzinfo that may   *)
(* be missing.  `now` is the UTC hour.                                     *)
(***************************************************************************)
IsoStr(clock, offset) == [k |-> "isostr", clock |-> clock, aware |-> TRUE, offset |-> offset]
IsoNaive(clock) == [k |-> "isostr", clock |-> clock, aware |-> FALSE, offset |-> 0]
BadStr == Str(<<"x">>)
EmptyStr == Str(<<>>)

\* dt_util.parse_datetime: a datetime, or None for a string that is no datetime.
parse_datetime(value) ==
    IF value.k = "isostr"
    THEN [k |-> "datetime", clock |-> value.clock, aware |-> value.aware, offset |-> value.offset]
    ELSE None

_parse_datetime(value) ==
    IF ~Truthy(value) THEN None
    ELSE LET dt == parse_datetime(value)
         IN  IF Truthy(dt) /\ ~dt.aware
             THEN [dt EXCEPT !.aware = TRUE, !.offset = 0]
             ELSE dt

\* a < b for two aware datetimes: their instants are compared.
DatetimeLess(a, b) == a.clock - a.offset < b.clock - b.offset

UtcNow(t) == [k |-> "datetime", clock |-> t, aware |-> TRUE, offset |-> 0]

\* A plausible slip: the stop instant itself still counts as active.
_is_active_inclusive(item, t) ==
    LET start == _parse_datetime(DictGet(item.start_at))
        stop == _parse_datetime(DictGet(item.stop_at))
    IN  IF Truthy(start) /\ DatetimeLess(UtcNow(t), start) THEN FALSE
        ELSE IF Truthy(stop) /\ DatetimeLess(stop, UtcNow(t)) THEN FALSE
        ELSE TRUE

_is_active(item, t) ==
    LET start == _parse_datetime(DictGet(item.start_at))
        stop == _parse_datetime(DictGet(item.stop_at))
    IN  IF Truthy(start) /\ DatetimeLess(UtcNow(t), start) THEN FALSE
        ELSE IF Truthy(stop) /\ ~DatetimeLess(UtcNow(t), stop) THEN FALSE
        ELSE TRUE

(***************************************************************************)
(* The active-window test applied to bounded inputs.                       *)
(***************************************************************************)
MaxTime == 3

Offsets == {-1, 0, 1}

Timestamps ==
    {None, EmptyStr, BadStr}
    \cup {IsoStr(c, o) : c \in 0..MaxTime, o \in Offsets}
    \cup {IsoNaive(c) : c \in 0..MaxTime}

Item(id, area, start_at, stop_at) ==
    [k |-> "dict", empty |-> FALSE, id |-> id, area |-> area,
     start_at |-> start_at, stop_at |-> stop_at]

InitActive ==
    /\ config = None /\ tracker = None
    /\ sensor_states = NoSensorStates
    /\ nl_data = None /\ amber_data = None /\ burgernet_data = None
    /\ now \in 0..MaxTime
    /\ call \in {[fn |-> "_is_active", pc |-> "call", item |-> Item(Num(1), None, a, b),
                  val |-> FALSE] : a \in Timestamps, b \in Timestamps}

IsActive ==
    /\ call.fn = "_is_active" /\ call.pc = "call"
    /\ call' = [call EXCEPT !.pc = "done", !.val = _is_active(call.item, now)]
    /\ UNCHANGED <<config, tracker, now, nl_data, amber_data, burgernet_data, sensor_states>>

NextActive == IsActive

SpecActive == InitActive /\ [][NextActive]_vars

(***************************************************************************)
(* What the active-window test is to return.                               *)
(***************************************************************************)
\* The timestamp places a bound: it is a string that denotes an instant.
HasInstant(ts) == ts.k = "isostr"

\* The instant, in UTC hours; a string without offset is read as UTC.
InstantOf(ts) == IF ts.aware THEN ts.clock - ts.offset ELSE ts.clock

ActiveDone == call.fn = "_is_active" /\ call.pc = "done"

\* C2: an alert is active at `now` exactly when (start is absent or
\* start <= now) and (stop is absent or now < stop).
C2_HalfOpenWindow ==
    ActiveDone =>
        (call.val <=>
            /\ (~HasInstant(call.item.start_at) \/ InstantOf(call.item.start_at) <= now)
            /\ (~HasInstant(call.item.stop_at) \/ now < InstantOf(call.item.stop_at)))

\* The test has found inactive an alert that has started and whose stop
\* instant, written with an offset, is `now`.
C2_Witness ==
    /\ ActiveDone
    /\ now = 2
    /\ call.item.start_at = IsoNaive(1)
    /\ call.item.stop_at = IsoStr(3, 1)
    /\ ~call.val

(***************************************************************************)
(* Distances.  The grid is local and drawn to scale (the cos(lat0) factor  *)
(* of the projection and the Earth radius are in its unit), so that the    *)
(* great-circle distance of haversine and the projected distance of        *)
(* math.hypot are both the Euclidean distance of the grid.  A distance is  *)
(* kept as its square, an exact quotient n / d; float("inf") is 1 / 0.     *)
(***************************************************************************)
Dist2(n, d) == [n |-> n, d |-> d]
Infinity == Dist2(1, 0)

\* x < y and x <= r for squared distances x, y and a radius r >= 0.
DistLess(x, y) == x.n * y.d < y.n * x.d
DistWithin(x, r) == x.n <= r * r * x.d

haversine(lat1, lon1, lat2, lon2) ==
    Dist2((lat2 - lat1) * (lat2 - lat1) + (lon2 - lon1) * (lon2 - lon1), 1)

\* t = max(0, min(1, -(ax * vx + ay * vy) / denom)) is tn / denom;
\* px = ax + t * vx is (ax * denom + tn * vx) / denom, and py alike.
_distance_point_to_segment_m(lat, lon, a_lat, a_lon, b_lat, b_lon) ==
    LET ax == a_lon - lon
        ay == a_lat - lat
        bx == b_lon - lon
        by == b_lat - lat
        vx == bx - ax
        vy == by - ay
        denom == vx * vx + vy * vy
        tn == Max(0, Min(denom, -(ax * vx + ay * vy)))
        pxn == ax * denom + tn * vx
        pyn == ay * denom + tn * vy
    IN  IF denom = 0 THEN Dist2(ax * ax + ay * ay, 1)
        ELSE Dist2(pxn * pxn + pyn * pyn, denom * denom)

\* A plausible slip: the edge from the last vertex back to the first is left out.
RECURSIVE min_dist_loop_open(_, _, _, _, _)
min_dist_loop_open(lat, lon, polygon, i, min_dist) ==
    IF i > Len(polygon) - 1 THEN min_dist
    ELSE LET a == polygon[i]
             b == NextVertex(polygon, i)
             dist == _distance_point_to_segment_m(lat, lon, a[1], a[2], b[1], b[2])
         IN  min_dist_loop_open(lat, lon, polygon, i + 1,
                                IF DistLess(dist, min_dist) THEN dist ELSE min_dist)

RECURSIVE min_dist_loop(_, _, _, _, _)
min_dist_loop(lat, lon, polygon, i, min_dist) ==
    IF i > Len(polygon) THEN min_dist
    ELSE LET a == polygon[i]
             b == NextVertex(polygon, i)
             dist == _distance_point_to_segment_m(lat, lon, a[1], a[2], b[1], b[2])
         IN  min_dist_loop(lat, lon, polygon, i + 1,
                           IF DistLess(dist, min_dist) THEN dist ELSE min_dist)

_min_distance_to_polygon_m(lat, lon, polygon) ==
    IF Len(polygon) = 1
    THEN haversine(lat, lon, polygon[1][1], polygon[1][2])
    ELSE min_dist_loop(lat, lon, polygon, 1, Infinity)

(***************************************************************************)
(* Reference location: _resolve_coordinates.                               *)
(***************************************************************************)
TrackerState(latitude, longitude) ==
    [k |-> "state", latitude |-> latitude, longitude |-> longitude]

\* hass.states.get(entity_id): the state of the entity, None when unknown.
hass_states_get(entity_id) ==
    IF entity_id.k = "text" THEN sensor_states[entity_id.s] ELSE tracker

Coordinates(lat, lon) == [k |-> "tuple", lat |-> lat, lon |-> lon]

_resolve_coordinates(location_source, tracker_entity_id) ==
    LET state == IF location_source = "entity" /\ Truthy(tracker_entity_id)
                 THEN hass_states_get(tracker_entity_id)
                 ELSE None
    IN  IF Truthy(state) /\ ~IsNone(DictGet(state.latitude))
        THEN IF IsRaise(DictItem(state.longitude)) THEN Raise("KeyError")
             ELSE Coordinates(DictItem(state.latitude), DictItem(state.longitude))
        ELSE Coordinates(config.latitude, config.longitude)

(***************************************************************************)
(* NL-Alert sensor: NLAlertSensor.state and _get_active_item.              *)
(***************************************************************************)
IsNumber(x) == x.k = "num"

\* The polygons of one item from the j-th on: does one of them match?  An
\* empty polygon is skipped; a reference point that is no pair of numbers
\* makes the comparisons of the geometry raise.
RECURSIVE polygons_match(_, _, _, _)
polygons_match(coords, polygons, j, max_radius_m) ==
    IF j > Len(polygons) THEN Bool(FALSE)
    ELSE IF polygons[j] = <<>> THEN polygons_match(coords, polygons, j + 1, max_radius_m)
    ELSE IF ~(IsNumber(coords.lat) /\ IsNumber(coords.lon)) THEN Raise("TypeError")
    ELSE LET lat0 == IntOf(coords.lat)
             lon0 == IntOf(coords.lon)
             hit == _point_in_polygon(lat0, lon0, polygons[j])
         IN  IF IsRaise(hit) THEN hit
             ELSE IF hit.b THEN Bool(TRUE)
             ELSE IF DistWithin(_min_distance_to_polygon_m(lat0, lon0, polygons[j]),
                                max_radius_m)
                  THEN Bool(TRUE)
             ELSE polygons_match(coords, polygons, j + 1, max_radius_m)

\* A plausible slip: the window of the item is not looked at.
RECURSIVE active_item_loop_any(_, _, _, _, _)
active_item_loop_any(coords, items, i, t, max_radius_m) ==
    IF i > Len(items) THEN None
    ELSE IF items[i].k # "dict" THEN Raise("AttributeError")
    ELSE LET hit == polygons_match(coords, _iter_polygons(DictGet(items[i].area)), 1,
                                   max_radius_m)
         IN  IF IsRaise(hit) THEN hit
             ELSE IF hit.b THEN items[i]
             ELSE active_item_loop_any(coords, items, i + 1, t, max_radius_m)

\* for item in items: the first item that is active and has a matching polygon.
\* An item that is no dict has no .get.
RECURSIVE active_item_loop(_, _, _, _, _)
active_item_loop(coords, items, i, t, max_radius_m) ==
    IF i > Len(items) THEN None
    ELSE IF items[i].k # "dict" THEN Raise("AttributeError")
    ELSE IF ~_is_active(items[i], t)
         THEN active_item_loop(coords, items, i + 1, t, max_radius_m)
    ELSE LET hit == polygons_match(coords, _iter_polygons(DictGet(items[i].area)), 1,
                                   max_radius_m)
         IN  IF IsRaise(hit) THEN hit
             ELSE IF hit.b THEN items[i]
             ELSE active_item_loop(coords, items, i + 1, t, max_radius_m)

\* self._get_active_item(items): an item, None, or the exception raised.
\* Iterating over None or a number raises; the items of a str or of a dict
\* are its characters or its keys.
_get_active_item(items) ==
    LET coords == _resolve_coordinates(config.location_source, config.tracker_entity_id)
    IN  CASE IsRaise(coords) -> coords
          [] items.k = "list" ->
                active_item_loop(coords, items.items, 1, now, config.max_radius_m)
          [] items.k \in {"str", "dict"} ->
                IF Truthy(items) THEN Raise("AttributeError") ELSE None
          [] OTHER -> Raise("TypeError")

\* (self.coordinator.data or {}).get("data", [])
nl_items(data) ==
    IF ~Truthy(data) THEN List(<<>>)
    ELSE IF data.k # "dict" THEN Raise("AttributeError")
    ELSE IF data.data.k = "absent" THEN List(<<>>)
    ELSE data.data

\* A plausible slip: an "unsafe" verdict is kept as long as the state is read.
NLAlertSensor_state_kept ==
    LET items == nl_items(nl_data)
        item == IF IsRaise(items) THEN items ELSE _get_active_item(items)
    IN  IF call.prev_fn = "NLAlertSensor.state" /\ call.prev = Verdict("unsafe")
        THEN [item |-> item, val |-> call.prev]
        ELSE [item |-> item,
              val |-> IF IsRaise(item) THEN item
                      ELSE IF Truthy(item) THEN Verdict("unsafe") ELSE Verdict("safe")]

\* The state property, with the item it rests on.
NLAlertSensor_state ==
    LET items == nl_items(nl_data)
        item == IF IsRaise(items) THEN items ELSE _get_active_item(items)
    IN  [item |-> item,
         val |-> IF IsRaise(item) THEN item
                 ELSE IF Truthy(item) THEN Verdict("unsafe") ELSE Verdict("safe")]

(***************************************************************************)
(* The NL-Alert sensor evaluated on bounded payloads.                      *)
(***************************************************************************)
MaxItems == 2

\* A string of "lat,lon" tokens for a sequence of vertices with coordinates
\* among 0, 2 and 4.
DigitOf(n) == CASE n = 0 -> "0" [] n = 2 -> "2" [] OTHER -> "4"

RECURSIVE AreaString(_)
AreaString(polygon) ==
    IF polygon = <<>> THEN <<>>
    ELSE <<DigitOf(polygon[1][1]), ",", DigitOf(polygon[1][2])>>
         \o (IF Len(polygon) = 1 THEN <<>> ELSE <<" ">> \o AreaString(Tail(polygon)))

Square == << <<0, 0>>, <<0, 4>>, <<4, 4>>, <<4, 0>> >>
Segment == << <<0, 0>>, <<4, 0>> >>
Point == << <<2, 4>> >>

NLAreas ==
    {None,
     Str(AreaString(Square)),
     List(<<Str(AreaString(Square))>>),
     List(<<EmptyStr, Str(AreaString(Square))>>),
     List(<<BadStr, Str(AreaString(Segment))>>),
     List(<<Str(AreaString(Point))>>),
     List(<<Str(AreaString(Segment)), Str(AreaString(Point))>>)}

\* always open; not yet started at hours 1 and 2; stopped from hour 2 on.
NLWindows == {<<None, None>>, <<IsoStr(3, 0), None>>, <<IsoNaive(0), IsoStr(3, 1)>>}

NLItems == {Item(Num(0), a, w[1], w[2]) : a \in NLAreas, w \in NLWindows}

\* The items of a payload carry their position as id.
Numbered(items) == [i \in 1..Len(items) |-> [items[i] EXCEPT !.id = Num(i)]]

NLDict(data) == [k |-> "dict", empty |-> FALSE, data |-> data]

NLPayloads == {NLDict(List(Numbered(l))) : l \in SeqsUpTo(NLItems, MaxItems)}

TrackerEntityId == Str(<<"x">>)

Config(location_source, tracker_entity_id, max_radius_m) ==
    [location_source |-> location_source, tracker_entity_id |-> tracker_entity_id,
     max_radius_m |-> max_radius_m, latitude |-> Num(2), longitude |-> Num(7)]

\* The tracked entity: unknown, without coordinates, inside the square, at
\* distance 1 of it, and farther than 5 from it.
TrackerStates ==
    {None, TrackerState(Absent, Absent), TrackerState(Num(1), Num(1)),
     TrackerState(Num(2), Num(5)), TrackerState(Num(8), Num(8))}

Radii == {1, 5}

InitNL ==
    /\ config \in {Config(src, TrackerEntityId, r) : src \in {"home", "entity"}, r \in Radii}
    /\ tracker \in TrackerStates
    /\ sensor_states = NoSensorStates
    /\ now \in 1..2
    /\ nl_data \in NLPayloads
    /\ amber_data = None /\ burgernet_data = None
    /\ call = [fn |-> "NLAlertSensor.state", pc |-> "call", item |-> None, val |-> None]

NLAlertSensorState ==
    /\ call.fn = "NLAlertSensor.state" /\ call.pc = "call"
    /\ call' = [call EXCEPT !.pc = "done", !.item = NLAlertSensor_state.item,
                            !.val = NLAlertSensor_state.val]
    /\ UNCHANGED <<config, tracker, now, nl_data, amber_data, burgernet_data, sensor_states>>

NextNL == NLAlertSensorState

SpecNL == InitNL /\ [][NextNL]_vars

(***************************************************************************)
(* What the geofence evaluation is to return.                              *)
(***************************************************************************)
\* The reference point of the evaluation, when it resolves to two numbers.
RefPoint ==
    IF /\ config.location_source = "entity"
       /\ tracker.k = "state"
       /\ tracker.latitude.k = "num" /\ tracker.longitude.k = "num"
    THEN <<IntOf(tracker.latitude), IntOf(tracker.longitude)>>
    ELSE <<IntOf(config.latitude), IntOf(config.longitude)>>

\* The item is active and has a non-empty polygon that holds the reference
\* point or lies within the radius of it.
Qualifies(item) ==
    /\ _is_active(item, now)
    /\ LET polygons == _iter_polygons(DictGet(item.area))
       IN  \E j \in 1..Len(polygons) :
              /\ polygons[j] # <<>>
              /\ \/ _point_in_polygon(RefPoint[1], RefPoint[2], polygons[j]).b
                 \/ DistWithin(_min_distance_to_polygon_m(RefPoint[1], RefPoint[2],
                                                          polygons[j]),
                               config.max_radius_m)

NLItemsOfPayload == nl_data.data.items

NLStateDone == call.fn = "NLAlertSensor.state" /\ call.pc = "done"

\* C1: the geofence evaluation returns the first item in input order that is
\* active and has a non-empty polygon which holds the reference point or lies
\* within the radius of it, and none exactly when no item qualifies.
C1_FirstQualifyingItem ==
    NLStateDone =>
        LET items == NLItemsOfPayload
            qualifying == {i \in 1..Len(items) : Qualifies(items[i])}
        IN  /\ qualifying = {} => call.item = None /\ call.val = Verdict("safe")
            /\ qualifying # {} =>
                  /\ call.item = items[CHOOSE i \in qualifying : \A j \in qualifying : i <= j]
                  /\ call.val = Verdict("unsafe")

\* The evaluation has returned the second item, which lies 3 from the
\* reference point with a radius of 5, after an inactive first item that
\* holds the same area.
C1_Witness ==
    /\ NLStateDone
    /\ config.location_source = "home" /\ config.max_radius_m = 5
    /\ Len(NLItemsOfPayload) = 2
    /\ NLItemsOfPayload[1].area = NLItemsOfPayload[2].area
    /\ NLItemsOfPayload[2].area = List(<<EmptyStr, Str(AreaString(Square))>>)
    /\ ~_is_active(NLItemsOfPayload[1], now)
    /\ call.item = NLItemsOfPayload[2]
    /\ call.val = Verdict("unsafe")

(***************************************************************************)
(* The reference location resolved for bounded configurations and states   *)
(* of the tracked entity.                                                  *)
(***************************************************************************)
MaxCoord == 1

LocCoords == {Absent, None} \cup {Num(c) : c \in 0..MaxCoord}

LocTrackerStates == {None} \cup {TrackerState(la, lo) : la \in LocCoords, lo \in LocCoords}

InitLoc ==
    /\ config \in {Config(src, id, 5) :
                      src \in {"home", "entity"}, id \in {None, EmptyStr, TrackerEntityId}}
    /\ tracker \in LocTrackerStates
    /\ sensor_states = NoSensorStates
    /\ now = 0
    /\ nl_data = None /\ amber_data = None /\ burgernet_data = None
    /\ call = [fn |-> "_resolve_coordinates", pc |-> "call", val |-> None]

ResolveCoordinates ==
    /\ call.fn = "_resolve_coordinates" /\ call.pc = "call"
    /\ call' = [call EXCEPT !.pc = "done",
                            !.val = _resolve_coordinates(config.location_source,
                                                         config.tracker_entity_id)]
    /\ UNCHANGED <<config, tracker, now, nl_data, amber_data, burgernet_data, sensor_states>>

NextLoc == ResolveCoordinates

SpecLoc == InitLoc /\ [][NextLoc]_vars

(***************************************************************************)
(* What the resolution is to return.                                       *)
(***************************************************************************)
ResolveDone == call.fn = "_resolve_coordinates" /\ call.pc = "done"

\* The location source is the tracked entity, which is configured, known and
\* has both of its coordinates.
TrackerHasCoordinates ==
    /\ config.location_source = "entity"
    /\ config.tracker_entity_id = TrackerEntityId
    /\ tracker.k = "state"
    /\ tracker.latitude.k = "num" /\ tracker.longitude.k = "num"

StaticPoint == Coordinates(config.latitude, config.longitude)

\* C10: the reference location is the tracked entity's (latitude, longitude)
\* when the source is the tracked entity and it has coordinates, and the
\* static configured point in every other case; it is always a complete pair
\* and resolution never fails.
C10_ReferenceLocation ==
    ResolveDone =>
        /\ call.val.k = "tuple"
        /\ call.val.lat.k = "num" /\ call.val.lon.k = "num"
        /\ call.val = IF TrackerHasCoordinates
                      THEN Coordinates(tracker.latitude, tracker.longitude)
                      ELSE StaticPoint

(***************************************************************************)
(* AmberAlert sensor: _get_active_alerts and state.                        *)
(***************************************************************************)
\* int(value): a float is truncated towards zero, a string must be digits.
int(value) ==
    CASE value.k = "num" ->
            IF value.e >= 0 THEN value
            ELSE IF value.v >= 0 THEN Num(value.v \div Pow10(-value.e))
            ELSE Num(-((-value.v) \div Pow10(-value.e)))
      [] value.k = "str" ->
            IF value.s # <<>> /\ \A i \in 1..Len(value.s) : value.s[i] \in Digits
            THEN Num(DigitsValue(value.s))
            ELSE Raise("ValueError")
      [] OTHER -> Raise("TypeError")

\* try: level = int(alert.get("AlertLevel", 0)) except (TypeError, ValueError): level = 0
alert_level(alert) ==
    LET level == int(IF alert.AlertLevel.k = "absent" THEN Num(0) ELSE alert.AlertLevel)
    IN  IF IsRaise(level) THEN Num(0) ELSE level

\* area = alert.get("Area") or {}; area.get(...)
alert_area(alert) ==
    LET area == DictGet(alert.Area)
    IN  IF ~Truthy(area) THEN EmptyDict
        ELSE IF area.k # "dict" THEN Raise("AttributeError")
        ELSE area

ActiveAlert(alert) ==
    [alert_id |-> DictGet(alert.AlertId), level |-> alert_level(alert),
     state |-> DictGet(alert.State), type |-> DictGet(alert.Type)]

\* A plausible slip: the type of the record is not looked at.
RECURSIVE active_alerts_loop_anytype(_, _, _)
active_alerts_loop_anytype(data, i, active) ==
    IF i > Len(data) THEN List(active)
    ELSE IF data[i].k # "dict" THEN Raise("AttributeError")
    ELSE IF DictGet(data[i].State) # Text("Actual")
         THEN active_alerts_loop_anytype(data, i + 1, active)
    ELSE IF IsRaise(alert_area(data[i])) THEN alert_area(data[i])
    ELSE active_alerts_loop_anytype(data, i + 1, Append(active, ActiveAlert(data[i])))

\* for alert in data: a record that is no dict has no .get.
RECURSIVE active_alerts_loop(_, _, _)
active_alerts_loop(data, i, active) ==
    IF i > Len(data) THEN List(active)
    ELSE IF data[i].k # "dict" THEN Raise("AttributeError")
    ELSE IF \/ DictGet(data[i].State) # Text("Actual")
            \/ DictGet(data[i].Type) \notin {Text("Alert"), Text("Update")}
         THEN active_alerts_loop(data, i + 1, active)
    ELSE IF IsRaise(alert_area(data[i])) THEN alert_area(data[i])
    ELSE active_alerts_loop(data, i + 1, Append(active, ActiveAlert(data[i])))

\* data = self.coordinator.data or []; if not isinstance(data, list): return []
_get_active_alerts ==
    IF ~Truthy(amber_data) \/ amber_data.k # "list" THEN List(<<>>)
    ELSE active_alerts_loop(amber_data.items, 1, <<>>)

\* any(a.get("level", 0) >= 5 for a in active)
AmberAlertSensor_state ==
    LET active == _get_active_alerts
    IN  IF IsRaise(active) THEN active
        ELSE IF \E i \in 1..Len(active.items) : ~NumLess(active.items[i].level, Num(5))
             THEN Verdict("unsafe")
        ELSE Verdict("safe")

(***************************************************************************)
(* The AmberAlert sensor evaluated on bounded payloads.                    *)
(***************************************************************************)
MaxAlerts == 2

Alert(State, Type, AlertLevel) ==
    [k |-> "dict", empty |-> FALSE, AlertId |-> Num(0), State |-> State, Type |-> Type,
     AlertLevel |-> AlertLevel, Area |-> Absent]

\* 4, 5, 9, 4.9, 5.5, "4", "40", "4,0", "x", null, no level.
AlertLevels ==
    {Num(4), Num(5), Num(9), Dec(49, -1), Dec(55, -1), Str(<<"4">>), Str(<<"4", "0">>),
     Str(<<"4", ",", "0">>), BadStr, None, Absent}

Alerts ==
    {Alert(st, ty, lv) : st \in {Text("Actual"), Text("Test")},
                         ty \in {Text("Alert"), Text("Update"), Text("Cancel")},
                         lv \in AlertLevels}

InitAmber ==
    /\ config = None /\ tracker = None /\ now = 0
    /\ sensor_states = NoSensorStates
    /\ nl_data = None /\ burgernet_data = None
    /\ amber_data \in {List(l) : l \in SeqsUpTo(Alerts, MaxAlerts)}
    /\ call = [fn |-> "AmberAlertSensor.state", pc |-> "call", val |-> None]

AmberAlertSensorState ==
    /\ call.fn = "AmberAlertSensor.state" /\ call.pc = "call"
    /\ call' = [call EXCEPT !.pc = "done", !.val = AmberAlertSensor_state]
    /\ UNCHANGED <<config, tracker, now, nl_data, amber_data, burgernet_data, sensor_states>>

NextAmber == AmberAlertSensorState

SpecAmber == InitAmber /\ [][NextAmber]_vars

(***************************************************************************)
(* What the AmberAlert sensor is to report.                                *)
(***************************************************************************)
\* The level is a number of at least 5, or a string of digits that reads as
\* one; everything else counts as 0 or is below 5.
LevelAtLeast5(level) ==
    \/ level.k = "num" /\ ~NumLess(level, Num(5))
    \/ /\ level.k = "str" /\ level.s # <<>>
       /\ \A i \in 1..Len(level.s) : level.s[i] \in Digits
       /\ DigitsValue(level.s) >= 5

QualifyingAlert(alert) ==
    /\ alert.State = Text("Actual")
    /\ alert.Type \in {Text("Alert"), Text("Update")}
    /\ LevelAtLeast5(alert.AlertLevel)

AmberDone == call.fn = "AmberAlertSensor.state" /\ call.pc = "done"

\* C3: for a payload that is a list of records the AmberAlert state is
\* "unsafe" if and only if a record has State "Actual", Type "Alert" or
\* "Update" and an AlertLevel that coerces to an integer >= 5; otherwise "safe".
C3_SeverityThreshold ==
    AmberDone =>
        call.val = IF \E i \in 1..Len(amber_data.items) : QualifyingAlert(amber_data.items[i])
                   THEN Verdict("unsafe")
                   ELSE Verdict("safe")

\* The sensor has reported "unsafe" for one Actual Alert of level 5.
C3_Witness ==
    /\ AmberDone
    /\ amber_data = List(<<Alert(Text("Actual"), Text("Alert"), Num(5))>>)
    /\ call.val = Verdict("unsafe")

(***************************************************************************)
(* Burgernet actions feed: _extract_burgernet_actions,                     *)
(* _prepare_burgernet_action and _prepare_burgernet_actions.               *)
(***************************************************************************)
\* A list of actions, whatever the payload is.
_extract_burgernet_actions(payload) ==
    IF payload.k = "dict" /\ DictGet(payload.actions).k = "list"
    THEN DictGet(payload.actions).items
    ELSE IF payload.k = "list" THEN payload.items
    ELSE <<>>

\* area = action.get("area") or {}
action_area(action) ==
    LET area == DictGet(action.area)
    IN  IF ~Truthy(area) THEN [k |-> "dict", empty |-> TRUE, lat |-> Absent, lng |-> Absent]
        ELSE IF area.k # "dict" THEN Raise("AttributeError")
        ELSE area

\* The local ISO string of an instant given in seconds.
LocalIso(ts) == [k |-> "localiso", ts |-> ts]

\* Instants are within the range of datetime.
_format_epoch(value) ==
    LET ts == _coerce_epoch_seconds(value)
    IN  IF IsNone(ts) THEN None ELSE LocalIso(ts)

_prepare_burgernet_message(msg) ==
    [k |-> "dict", empty |-> FALSE,
     title |-> DictGet(msg.title), body |-> DictGet(msg.body),
     message_type |-> DictGet(msg.messageType),
     last_modified |-> _format_epoch(DictGet(msg.lastModifiedTimestamp))]

\* key=lambda m: m.get("lastModifiedTimestamp") or 0: the value as it stands
\* in the feed.  The keys compared are numbers.
message_key(m) ==
    LET ts == DictGet(m.lastModifiedTimestamp)
    IN  IF Truthy(ts) THEN ts ELSE Num(0)

\* sorted(messages, key) is stable and ascending: m sits after every message
\* whose key is not larger than its own.
RECURSIVE insert_message(_, _)
insert_message(sorted, m) ==
    IF sorted = <<>> THEN <<m>>
    ELSE IF NumLess(message_key(m), message_key(Head(sorted))) THEN <<m>> \o sorted
    ELSE <<Head(sorted)>> \o insert_message(Tail(sorted), m)

RECURSIVE sort_messages(_, _, _)
sort_messages(messages, i, sorted) ==
    IF i > Len(messages) THEN sorted
    ELSE sort_messages(messages, i + 1, insert_message(sorted, messages[i]))

\* messages = action.get("messages") or []; sorted_messages = sorted(...):
\* the sorted list, or the exception: a number is not iterable, and what is
\* iterated must have .get.
sorted_messages(action) ==
    LET messages == DictGet(action.messages)
    IN  IF ~Truthy(messages) THEN List(<<>>)
        ELSE IF messages.k = "num" \/ messages.k = "bool" THEN Raise("TypeError")
        ELSE IF messages.k # "list" THEN Raise("AttributeError")
        ELSE IF \E i \in 1..Len(messages.items) : messages.items[i].k # "dict"
             THEN Raise("AttributeError")
        ELSE List(sort_messages(messages.items, 1, <<>>))

\* latest = sorted_messages[-1] if sorted_messages else None
latest_of(sorted) == IF sorted # <<>> THEN sorted[Len(sorted)] ELSE None

\* latest.get("body") or latest.get("title"), with " (case closed)" appended
\* for an action that is not active.
latest_message_text(action, latest) ==
    IF ~Truthy(latest) THEN None
    ELSE LET text == IF Truthy(DictGet(latest.body)) THEN DictGet(latest.body)
                     ELSE DictGet(latest.title)
         IN  IF ~Truthy(DictGet(action.active)) /\ Truthy(text)
             THEN [k |-> "fstr", text |-> text, suffix |-> " (case closed)"]
             ELSE text

\* latest.get("messageType") and _format_epoch(latest.get("lastModifiedTimestamp"))
latest_message_type(latest) ==
    IF Truthy(latest) THEN DictGet(latest.messageType) ELSE None

latest_message_time(latest) ==
    IF Truthy(latest) THEN _format_epoch(DictGet(latest.lastModifiedTimestamp)) ELSE None

\* [_prepare_burgernet_message(msg) for msg in sorted_messages]
prepared_messages(sorted) ==
    [i \in 1..Len(sorted) |-> _prepare_burgernet_message(sorted[i])]

\* The record that _prepare_burgernet_action builds, given the sorted messages.
Prepared(action, distance_m, sorted) ==
    [k |-> "dict", empty |-> FALSE,
     id |-> DictGet(action.id),
     active |-> Bool(Truthy(DictGet(action.active))),
     start_ts |-> _coerce_epoch_seconds(DictGet(action.startTimestamp)),
     latest_message |-> latest_message_text(action, latest_of(sorted)),
     latest_message_type |-> latest_message_type(latest_of(sorted)),
     latest_message_time |-> latest_message_time(latest_of(sorted)),
     messages |-> prepared_messages(sorted),
     lat |-> action_area(action).lat,
     lng |-> action_area(action).lng,
     distance_m |-> distance_m]

\* The prepared record, or the exception that the messages raise.
with_messages(action, distance_m, sorted) ==
    IF IsRaise(sorted) THEN sorted ELSE Prepared(action, distance_m, sorted.items)

\* A plausible slip: an action at exactly the radius is dropped (>=).
_prepare_burgernet_action_ge(action, lat0, lon0, max_radius_m) ==
    IF action.k # "dict" THEN Raise("AttributeError")
    ELSE LET area == action_area(action)
         IN  IF IsRaise(area) THEN area
             ELSE IF IsNone(DictGet(area.lat)) \/ IsNone(DictGet(area.lng)) THEN None
             ELSE IF ~(IsNumber(area.lat) /\ IsNumber(area.lng)
                       /\ IsNumber(lat0) /\ IsNumber(lon0)) THEN Raise("TypeError")
             ELSE LET distance_m == haversine(IntOf(lat0), IntOf(lon0),
                                              IntOf(area.lat), IntOf(area.lng))
                  IN  IF /\ ~IsNone(max_radius_m)
                         /\ ~DistLess(distance_m, Dist2(IntOf(max_radius_m) * IntOf(max_radius_m), 1))
                      THEN None
                      ELSE with_messages(action, distance_m, sorted_messages(action))

\* The prepared record, None for an action that is dropped, or the exception:
\* an action or an area that is no dict has no .get, and haversine takes
\* numbers only.
_prepare_burgernet_action(action, lat0, lon0, max_radius_m) ==
    IF action.k # "dict" THEN Raise("AttributeError")
    ELSE LET area == action_area(action)
         IN  IF IsRaise(area) THEN area
             ELSE IF IsNone(DictGet(area.lat)) \/ IsNone(DictGet(area.lng)) THEN None
             ELSE IF ~(IsNumber(area.lat) /\ IsNumber(area.lng)
                       /\ IsNumber(lat0) /\ IsNumber(lon0)) THEN Raise("TypeError")
             ELSE LET distance_m == haversine(IntOf(lat0), IntOf(lon0),
                                              IntOf(area.lat), IntOf(area.lng))
                  IN  IF ~IsNone(max_radius_m) /\ ~DistWithin(distance_m, IntOf(max_radius_m))
                      THEN None
                      ELSE with_messages(action, distance_m, sorted_messages(action))

\* key=lambda a: a.get("start_ts") or 0
sort_key(a) == IF Truthy(a.start_ts) THEN a.start_ts ELSE Num(0)

\* A plausible slip: reverse=True left out, the oldest action comes first.
RECURSIVE insert_sorted_asc(_, _)
insert_sorted_asc(sorted, a) ==
    IF sorted = <<>> THEN <<a>>
    ELSE IF NumLess(sort_key(a), sort_key(Head(sorted))) THEN <<a>> \o sorted
    ELSE <<Head(sorted)>> \o insert_sorted_asc(Tail(sorted), a)

\* list.sort(key, reverse=True) is stable: a sits after every action whose key
\* is not smaller than its own and that stood before it.
RECURSIVE insert_sorted(_, _)
insert_sorted(sorted, a) ==
    IF sorted = <<>> THEN <<a>>
    ELSE IF NumLess(sort_key(Head(sorted)), sort_key(a)) THEN <<a>> \o sorted
    ELSE <<Head(sorted)>> \o insert_sorted(Tail(sorted), a)

RECURSIVE sort_actions(_, _, _)
sort_actions(actions, i, sorted) ==
    IF i > Len(actions) THEN sorted
    ELSE sort_actions(actions, i + 1, insert_sorted(sorted, actions[i]))

RECURSIVE prepare_loop(_, _, _, _, _, _)
prepare_loop(raw, i, lat0, lon0, max_radius_m, actions) ==
    IF i > Len(raw) THEN List(actions)
    ELSE LET prepared == _prepare_burgernet_action(raw[i], lat0, lon0, max_radius_m)
         IN  IF IsRaise(prepared) THEN prepared
             ELSE prepare_loop(raw, i + 1, lat0, lon0, max_radius_m,
                               IF Truthy(prepared) THEN Append(actions, prepared) ELSE actions)

_prepare_burgernet_actions(payload, lat0, lon0, max_radius_m) ==
    LET actions == prepare_loop(_extract_burgernet_actions(payload), 1, lat0, lon0,
                                max_radius_m, <<>>)
    IN  IF IsRaise(actions) THEN actions
        ELSE List(sort_actions(actions.items, 1, <<>>))

(***************************************************************************)
(* The actions feed normalized for bounded payloads: lists of up to        *)
(* MaxRaw actions whose areas vary, and lists of up to MaxActions actions  *)
(* whose start timestamps vary.                                            *)
(***************************************************************************)
MaxRaw == 2
MaxActions == 4

AreaDict(lat, lng) == [k |-> "dict", empty |-> FALSE, lat |-> lat, lng |-> lng]

Action(area, active, startTimestamp) ==
    [k |-> "dict", empty |-> FALSE, id |-> Num(0), active |-> active,
     startTimestamp |-> startTimestamp, area |-> area, messages |-> Absent]

BurgernetDict(actions) == [k |-> "dict", empty |-> FALSE, actions |-> actions]

\* The reference point of the calls.
RefLat == Num(2)
RefLon == Num(7)

\* No area, a center that lacks a coordinate, and centers at distance 0, 1, 5,
\* 5 (not along an axis), above 5, and at latitude 0.
FilterAreas ==
    {Absent, None, AreaDict(None, Num(6)), AreaDict(Num(2), Absent),
     AreaDict(Num(2), Num(7)), AreaDict(Num(2), Num(6)), AreaDict(Num(2), Num(2)),
     AreaDict(Num(5), Num(3)), AreaDict(Num(8), Num(8)), AreaDict(Num(0), Num(0))}

FilterActions == {Action(a, Bool(b), Num(100)) : a \in FilterAreas, b \in BOOLEAN}

\* No start, 100 seconds before the epoch, 0, 100, 200, 300 seconds and
\* 2 * 10^12 milliseconds.
StartTimestamps == {Absent, Num(-100), Num(0), Num(100), Num(200), Num(300), Dec(2, 12)}

\* Actions within the radius, and one beyond it.
SortActions ==
    {Action(AreaDict(Num(2), Num(6)), Bool(TRUE), ts) : ts \in StartTimestamps}
    \cup {Action(AreaDict(Num(8), Num(8)), Bool(TRUE), Num(300))}

FilterRadii == {None, Num(0), Num(1), Num(5)}

ActionsInputs ==
    {<<List(Numbered(l)), r>> : l \in SeqsUpTo(FilterActions, MaxRaw), r \in FilterRadii}
    \cup {<<BurgernetDict(List(Numbered(l))), Num(5)>> : l \in SeqsUpTo(SortActions, MaxActions)}

InitActions ==
    /\ config = None /\ tracker = None /\ now = 0
    /\ sensor_states = NoSensorStates
    /\ nl_data = None /\ amber_data = None
    /\ \E x \in ActionsInputs :
          /\ burgernet_data = x[1]
          /\ call = [fn |-> "_prepare_burgernet_actions", pc |-> "call", lat0 |-> RefLat,
                     lon0 |-> RefLon, max_radius_m |-> x[2], val |-> None]

PrepareBurgernetActions ==
    /\ call.fn = "_prepare_burgernet_actions" /\ call.pc = "call"
    /\ call' = [call EXCEPT !.pc = "done",
                            !.val = _prepare_burgernet_actions(burgernet_data, call.lat0,
                                                               call.lon0, call.max_radius_m)]
    /\ UNCHANGED <<config, tracker, now, nl_data, amber_data, burgernet_data, sensor_states>>

NextActions == PrepareBurgernetActions

SpecActions == InitActions /\ [][NextActions]_vars

(***************************************************************************)
(* What the normalization is to return.                                    *)
(***************************************************************************)
ActionsDone == call.fn = "_prepare_burgernet_actions" /\ call.pc = "done"

RawActions ==
    IF burgernet_data.k = "list" THEN burgernet_data.items ELSE burgernet_data.actions.items

\* The raw action has a center, and the radius is None or the center lies
\* within it of the reference point.
Retained(action, max_radius_m) ==
    /\ action.area.k = "dict"
    /\ action.area.lat.k = "num" /\ action.area.lng.k = "num"
    /\ \/ max_radius_m = None
       \/ LET dlat == IntOf(action.area.lat) - IntOf(RefLat)
              dlng == IntOf(action.area.lng) - IntOf(RefLon)
          IN  dlat * dlat + dlng * dlng <= IntOf(max_radius_m) * IntOf(max_radius_m)

ReturnedIds == {call.val.items[i].id : i \in 1..Len(call.val.items)}

\* C4: normalization keeps a raw action if and only if its area has a center
\* latitude and longitude and either the radius is None or the distance from
\* the reference point to the center is <= the radius; each kept action
\* appears once.
C4_RadiusFilter ==
    ActionsDone =>
        /\ call.val.k = "list"
        /\ ReturnedIds = {RawActions[i].id :
                              i \in {j \in 1..Len(RawActions) :
                                        Retained(RawActions[j], call.max_radius_m)}}
        /\ Len(call.val.items) = Cardinality(ReturnedIds)

\* Normalization has kept the action at exactly the radius, 5 away not along
\* an axis, and dropped the one without a longitude.
C4_Witness ==
    /\ ActionsDone
    /\ call.max_radius_m = Num(5)
    /\ Len(RawActions) = 2
    /\ RawActions[1].area = AreaDict(Num(5), Num(3))
    /\ RawActions[2].area = AreaDict(Num(2), Absent)
    /\ ReturnedIds = {Num(1)}

\* The raw action that a returned action was prepared from.
RawOf(prepared) == RawActions[IntOf(prepared.id)]

HasStart(action) == action.startTimestamp.k = "num"

\* The start of the action in seconds.
StartSeconds(action) ==
    IF ExceedsMsThreshold(action.startTimestamp)
    THEN Over1000(action.startTimestamp)
    ELSE action.startTimestamp

\* Of two returned actions that both have a start, the earlier in the list
\* does not start before the later.
StartDescending(a, b) ==
    (HasStart(a) /\ HasStart(b)) => ~NumLess(StartSeconds(a), StartSeconds(b))

\* C5 as stated: the returned list is sorted by start time descending, and no
\* action without a start stands before an action that has one.
C5_AsClaimed ==
    ActionsDone =>
        \A i, j \in 1..Len(call.val.items) :
            i < j =>
                LET a == RawOf(call.val.items[i])
                    b == RawOf(call.val.items[j])
                IN  /\ StartDescending(a, b)
                    /\ ~(~HasStart(a) /\ HasStart(b))

\* C5 amended: the returned list is sorted by start time descending, a missing
\* start counting as epoch 0: no action without a start stands before an
\* action whose start is after the epoch, nor after one whose start is before
\* the epoch.
C5_SortedByStart ==
    ActionsDone =>
        \A i, j \in 1..Len(call.val.items) :
            i < j =>
                LET a == RawOf(call.val.items[i])
                    b == RawOf(call.val.items[j])
                IN  /\ StartDescending(a, b)
                    /\ ~(~HasStart(a) /\ HasStart(b) /\ NumLess(Num(0), StartSeconds(b)))
                    /\ ~(HasStart(a) /\ ~HasStart(b) /\ NumLess(StartSeconds(a), Num(0)))

\* Normalization has returned the actions that start at 100, 300, 200 and
\* without a start in the order 300, 200, 100, missing.
C5_Witness ==
    /\ ActionsDone
    /\ Len(RawActions) = 4
    /\ \A i \in 1..4 : RawActions[i].area = AreaDict(Num(2), Num(6))
    /\ RawActions[1].startTimestamp = Num(100)
    /\ RawActions[2].startTimestamp = Num(300)
    /\ RawActions[3].startTimestamp = Num(200)
    /\ RawActions[4].startTimestamp = Absent
    /\ [i \in 1..4 |-> call.val.items[i].id] = <<Num(2), Num(3), Num(1), Num(4)>>

(***************************************************************************)
(* Burgernet sensor: BurgernetSearchSensor._get_actions and state.         *)
(***************************************************************************)
_get_actions ==
    LET coords == _resolve_coordinates(config.location_source, config.tracker_entity_id)
    IN  IF IsRaise(coords) THEN coords
        ELSE _prepare_burgernet_actions(burgernet_data, coords.lat, coords.lon,
                                        Num(config.max_radius_m))

\* A plausible slip: all() for any().
all_active(actions) ==
    IF IsRaise(actions) THEN actions
    ELSE IF \A i \in 1..Len(actions.items) : Truthy(actions.items[i].active)
         THEN Verdict("unsafe")
    ELSE Verdict("safe")

\* "unsafe" if any(a.get("active") for a in actions) else "safe"
any_active(actions) ==
    IF IsRaise(actions) THEN actions
    ELSE IF \E i \in 1..Len(actions.items) : Truthy(actions.items[i].active)
         THEN Verdict("unsafe")
    ELSE Verdict("safe")

BurgernetSearchSensor_state == any_active(_get_actions)

(***************************************************************************)
(* The three sensors evaluated on payloads of unexpected shape.            *)
(***************************************************************************)
MaxShapeRadius == 5

\* A dict that holds none of the keys the sensors read.
OtherDict(empty) ==
    [k |-> "dict", empty |-> empty, data |-> Absent, actions |-> Absent,
     id |-> Absent, area |-> Absent, start_at |-> Absent, stop_at |-> Absent,
     State |-> Absent, Type |-> Absent, AlertLevel |-> Absent, Area |-> Absent,
     AlertId |-> Absent, active |-> Absent, startTimestamp |-> Absent,
     messages |-> Absent]

\* Values that are no records: null, numbers, strings.
Scalars == {None, Num(0), Num(5), EmptyStr, BadStr}

\* Containers that hold no records.
NonRecordLists == {List(<<x>>) : x \in Scalars} \cup {List(<<List(<<>>)>>)}

\* A dict where a list is expected and a list where a dict is expected, a
\* scalar, a null or ill-typed container field, elements that are no records.
ShapePayloads ==
    Scalars
    \cup {List(<<>>), List(<<OtherDict(TRUE)>>), List(<<OtherDict(FALSE)>>)}
    \cup NonRecordLists
    \cup {OtherDict(TRUE), OtherDict(FALSE)}
    \cup {[OtherDict(FALSE) EXCEPT !.data = x, !.actions = x] :
             x \in Scalars \cup NonRecordLists \cup {OtherDict(FALSE), List(<<>>)}}

ShapeSensors == {"NLAlertSensor.state", "AmberAlertSensor.state", "BurgernetSearchSensor.state"}

InitShapes ==
    /\ config \in {Config(src, TrackerEntityId, r) :
                      src \in {"home", "entity"}, r \in 0..MaxShapeRadius}
    /\ tracker \in {None, TrackerState(Num(1), Num(1))}
    /\ sensor_states = NoSensorStates
    /\ now = 1
    /\ \E p \in ShapePayloads, fn \in ShapeSensors :
          /\ nl_data = IF fn = "NLAlertSensor.state" THEN p ELSE None
          /\ amber_data = IF fn = "AmberAlertSensor.state" THEN p ELSE None
          /\ burgernet_data = IF fn = "BurgernetSearchSensor.state" THEN p ELSE None
          /\ call = [fn |-> fn, pc |-> "call", item |-> None, val |-> None]

BurgernetSearchSensorState ==
    /\ call.fn = "BurgernetSearchSensor.state" /\ call.pc = "call"
    /\ call' = [call EXCEPT !.pc = "done", !.val = BurgernetSearchSensor_state]
    /\ UNCHANGED <<config, tracker, now, nl_data, amber_data, burgernet_data, sensor_states>>

NextShapes == NLAlertSensorState \/ AmberAlertSensorState \/ BurgernetSearchSensorState

SpecShapes == InitShapes /\ [][NextShapes]_vars

\* C7: for each of the three feeds a payload of unexpected shape never makes
\* the state evaluation raise; the sensor reports "safe".
C7_UnexpectedShapeIsSafe ==
    (call.fn \in ShapeSensors /\ call.pc = "done") => call.val = Verdict("safe")

(***************************************************************************)
(* Individual action sensors: BurgernetActionSensor._get_action and state. *)
(***************************************************************************)
\* max_actions = max(1, min(3, max_actions)): the most action sensors created.
MaxActionSensors == 3

\* actions[self.index] if self.index < len(actions) else None
action_at(actions, index) ==
    IF IsRaise(actions) THEN actions
    ELSE IF index < Len(actions.items) THEN actions.items[index + 1]
    ELSE None

_get_action(index) == action_at(_get_actions, index)

\* None, "active" or "closed"
action_state(action) ==
    IF IsRaise(action) THEN action
    ELSE IF ~Truthy(action) THEN None
    ELSE IF Truthy(action.active) THEN Verdict("active")
    ELSE Verdict("closed")

BurgernetActionSensor_state(index) == action_state(_get_action(index))

(***************************************************************************)
(* The Burgernet sensors evaluated on bounded feeds: lists of up to        *)
(* MaxFeedActions actions at distance 1 or 5 of home.                      *)
(***************************************************************************)
MaxFeedActions == 3

FeedActions ==
    {Action(a, active, ts) :
        a \in {AreaDict(Num(2), Num(6)), AreaDict(Num(2), Num(2))},
        active \in {Bool(TRUE), Bool(FALSE), Absent},
        ts \in {Num(100), Num(200)}}

FeedPayloads == {List(Numbered(l)) : l \in SeqsUpTo(FeedActions, MaxFeedActions)}

InitBurgernet ==
    /\ config \in {Config("home", TrackerEntityId, r) : r \in Radii}
    /\ tracker = None /\ now = 0
    /\ sensor_states = NoSensorStates
    /\ nl_data = None /\ amber_data = None
    /\ burgernet_data \in FeedPayloads
    /\ call \in {[fn |-> "BurgernetSearchSensor.state", pc |-> "call", index |-> 0,
                  val |-> None]}
                \cup {[fn |-> "BurgernetActionSensor.state", pc |-> "call", index |-> i,
                       val |-> None] : i \in 0..(MaxActionSensors - 1)}

BurgernetActionSensorState ==
    /\ call.fn = "BurgernetActionSensor.state" /\ call.pc = "call"
    /\ call' = [call EXCEPT !.pc = "done", !.val = BurgernetActionSensor_state(call.index)]
    /\ UNCHANGED <<config, tracker, now, nl_data, amber_data, burgernet_data, sensor_states>>

NextBurgernet == BurgernetSearchSensorState \/ BurgernetActionSensorState

SpecBurgernet == InitBurgernet /\ [][NextBurgernet]_vars

(***************************************************************************)
(* What the Burgernet sensors are to report.                               *)
(***************************************************************************)
SearchDone == call.fn = "BurgernetSearchSensor.state" /\ call.pc = "done"
ActionSensorDone == call.fn = "BurgernetActionSensor.state" /\ call.pc = "done"

\* The raw actions of the feed that normalization retains.
RetainedActive ==
    {j \in 1..Len(RawActions) :
        /\ Retained(RawActions[j], Num(config.max_radius_m))
        /\ RawActions[j].active = Bool(TRUE)}

\* C11: the aggregate sensor is "unsafe" if and only if a retained action has
\* active = true; the action sensor of index i reports the i-th action of the
\* filtered, sorted list as "active" or "closed", and has no state when fewer
\* than i + 1 actions are retained; the aggregate is "unsafe" whenever an
\* action sensor is "active".
C11_AggregateAndIndividual ==
    /\ SearchDone =>
          call.val = IF RetainedActive # {} THEN Verdict("unsafe") ELSE Verdict("safe")
    /\ ActionSensorDone =>
          LET retained == {j \in 1..Len(RawActions) :
                              Retained(RawActions[j], Num(config.max_radius_m))}
              sorted == _prepare_burgernet_actions(burgernet_data, RefLat, RefLon,
                                                   Num(config.max_radius_m)).items
          IN  /\ Len(sorted) = Cardinality(retained)
              /\ call.val =
                   IF call.index >= Cardinality(retained) THEN None
                   ELSE IF IntOf(sorted[call.index + 1].id) \in RetainedActive
                        THEN Verdict("active")
                   ELSE Verdict("closed")
              /\ call.val = Verdict("active") => RetainedActive # {}

\* The sensor of index 1 reports "closed" for the older of two retained
\* actions, the newer, active one standing first; one more action is beyond
\* the radius.
C11_Witness ==
    /\ ActionSensorDone
    /\ call.index = 1
    /\ config.max_radius_m = 1
    /\ Len(RawActions) = 3
    /\ RawActions[1] = [Action(AreaDict(Num(2), Num(6)), Bool(FALSE), Num(100)) EXCEPT !.id = Num(1)]
    /\ RawActions[2] = [Action(AreaDict(Num(2), Num(2)), Bool(TRUE), Num(200)) EXCEPT !.id = Num(2)]
    /\ RawActions[3] = [Action(AreaDict(Num(2), Num(6)), Bool(TRUE), Num(200)) EXCEPT !.id = Num(3)]
    /\ call.val = Verdict("closed")

(***************************************************************************)
(* NL-Alert sensor attributes: NLAlertSensor.extra_state_attributes.       *)
(***************************************************************************)
\* "nl_alert_id": item.get("id") if item else None
NLAlertSensor_extra_state_attributes ==
    LET items == nl_items(nl_data)
        item == IF IsRaise(items) THEN items ELSE _get_active_item(items)
    IN  IF IsRaise(item) THEN item
        ELSE [k |-> "dict", empty |-> FALSE,
              nl_alert_id |-> IF Truthy(item) THEN DictGet(item.id) ELSE None]

(***************************************************************************)
(* The platform between refresh cycles: the coordinators replace their     *)
(* data, time passes, the tracked entity moves, and the properties of the  *)
(* sensors are read in between.  A read is not interleaved with the rest:  *)
(* the properties are synchronous and run on the event loop.  `call` keeps *)
(* the value of the read before (prev_fn, prev).                           *)
(***************************************************************************)
MaxTicks == 2

\* The square as area, active at hour 1 only, and active at any time.
RefreshNLPayloads ==
    {NLDict(List(<<>>)),
     NLDict(List(Numbered(<<Item(Num(0), Str(AreaString(Square)), IsoStr(1, 0), IsoStr(2, 0))>>))),
     NLDict(List(Numbered(<<Item(Num(0), Str(AreaString(Segment)), IsoStr(3, 0), None),
                            Item(Num(0), Str(AreaString(Square)), None, None)>>)))}

RefreshAmberPayloads ==
    {List(<<>>),
     List(<<Alert(Text("Actual"), Text("Alert"), Num(5))>>),
     List(<<Alert(Text("Actual"), Text("Alert"), Num(4))>>)}

\* An active action at distance 1 of the square's inside and farther than 5
\* from home, and a closed action at distance 1 of home.
RefreshBurgernetPayloads ==
    {List(<<>>),
     List(Numbered(<<Action(AreaDict(Num(1), Num(2)), Bool(TRUE), Num(100))>>)),
     List(Numbered(<<Action(AreaDict(Num(2), Num(6)), Bool(FALSE), Num(100))>>))}

\* The tracked entity: unknown, inside the square, farther than 5 from it.
RefreshTrackerStates == {None, TrackerState(Num(1), Num(1)), TrackerState(Num(8), Num(8))}

Properties ==
    {"NLAlertSensor.state", "NLAlertSensor.extra_state_attributes",
     "AmberAlertSensor.state", "BurgernetSearchSensor.state"}

\* The state after async_setup_entry: the first refresh has been done.
InitRefresh ==
    /\ config = Config("entity", TrackerEntityId, 1)
    /\ tracker \in RefreshTrackerStates
    /\ sensor_states = NoSensorStates
    /\ now = 0
    /\ nl_data \in RefreshNLPayloads
    /\ amber_data \in RefreshAmberPayloads
    /\ burgernet_data \in RefreshBurgernetPayloads
    /\ call = [fn |-> "none", pc |-> "idle", item |-> None, val |-> None,
               prev_fn |-> "none", prev |-> None]

\* The value of the last read has been handed over.
Returned == [call EXCEPT !.pc = "idle"]

\* coordinator_nl fetches: its data is replaced by the new payload.
RefreshNL ==
    /\ call.pc # "call"
    /\ \E p \in RefreshNLPayloads : nl_data' = p
    /\ call' = Returned
    /\ UNCHANGED <<config, tracker, now, amber_data, burgernet_data, sensor_states>>

RefreshAmber ==
    /\ call.pc # "call"
    /\ \E p \in RefreshAmberPayloads : amber_data' = p
    /\ call' = Returned
    /\ UNCHANGED <<config, tracker, now, nl_data, burgernet_data, sensor_states>>

RefreshBurgernet ==
    /\ call.pc # "call"
    /\ \E p \in RefreshBurgernetPayloads : burgernet_data' = p
    /\ call' = Returned
    /\ UNCHANGED <<config, tracker, now, nl_data, amber_data, sensor_states>>

\* An hour passes.
Tick ==
    /\ call.pc # "call"
    /\ now < MaxTicks
    /\ now' = now + 1
    /\ call' = Returned
    /\ UNCHANGED <<config, tracker, nl_data, amber_data, burgernet_data, sensor_states>>

\* The tracked entity reports another state.
TrackerChanged ==
    /\ call.pc # "call"
    /\ \E t \in RefreshTrackerStates : tracker' = t
    /\ call' = Returned
    /\ UNCHANGED <<config, now, nl_data, amber_data, burgernet_data, sensor_states>>

\* Home Assistant reads a property of a sensor.
ReadProperty ==
    /\ call.pc # "call"
    /\ \E fn \in Properties :
          call' = [fn |-> fn, pc |-> "call", item |-> None, val |-> None,
                   prev_fn |-> call.fn, prev |-> call.val]
    /\ UNCHANGED <<config, tracker, now, nl_data, amber_data, burgernet_data, sensor_states>>

NLAlertSensorAttributes ==
    /\ call.fn = "NLAlertSensor.extra_state_attributes" /\ call.pc = "call"
    /\ call' = [call EXCEPT !.pc = "done", !.val = NLAlertSensor_extra_state_attributes]
    /\ UNCHANGED <<config, tracker, now, nl_data, amber_data, burgernet_data, sensor_states>>

NextRefresh ==
    \/ RefreshNL \/ RefreshAmber \/ RefreshBurgernet \/ Tick \/ TrackerChanged
    \/ ReadProperty
    \/ NLAlertSensorState \/ NLAlertSensorAttributes
    \/ AmberAlertSensorState \/ BurgernetSearchSensorState

SpecRefresh == InitRefresh /\ [][NextRefresh]_vars

(***************************************************************************)
(* What a read is to return, from the current snapshot alone.              *)
(***************************************************************************)
\* The items of the current NL-Alert payload that qualify, by position.
QualifyingNow == {i \in 1..Len(nl_data.data.items) : Qualifies(nl_data.data.items[i])}

\* The actions of the current feed that are active and within the radius of
\* the current reference point.
ActiveNearNow ==
    {i \in 1..Len(burgernet_data.items) :
        LET a == burgernet_data.items[i]
            dlat == IntOf(a.area.lat) - RefPoint[1]
            dlng == IntOf(a.area.lng) - RefPoint[2]
        IN  /\ a.active = Bool(TRUE)
            /\ dlat * dlat + dlng * dlng <= config.max_radius_m * config.max_radius_m}

SnapshotValue(fn) ==
    CASE fn = "NLAlertSensor.state" ->
            IF QualifyingNow # {} THEN Verdict("unsafe") ELSE Verdict("safe")
      [] fn = "NLAlertSensor.extra_state_attributes" ->
            [k |-> "dict", empty |-> FALSE,
             nl_alert_id |-> IF QualifyingNow = {} THEN None
                             ELSE Num(CHOOSE i \in QualifyingNow :
                                         \A j \in QualifyingNow : i <= j)]
      [] fn = "AmberAlertSensor.state" ->
            IF \E i \in 1..Len(amber_data.items) : QualifyingAlert(amber_data.items[i])
            THEN Verdict("unsafe") ELSE Verdict("safe")
      [] fn = "BurgernetSearchSensor.state" ->
            IF ActiveNearNow # {} THEN Verdict("unsafe") ELSE Verdict("safe")

\* C12: after any sequence of refreshes, moves, hours and reads, the value a
\* read returns is the value of the current payload, reference location,
\* radius and time; nothing of an earlier payload or read is in it.
C12_FunctionOfSnapshot ==
    call.pc = "done" => call.val = SnapshotValue(call.fn)

\* The NL-Alert state has been read as "unsafe" and, the payload replaced by
\* one without items, is read as "safe", the tracked entity inside the square.
C12_Witness ==
    /\ call.pc = "done"
    /\ call.fn = "NLAlertSensor.state" /\ call.val = Verdict("safe")
    /\ call.prev_fn = "NLAlertSensor.state" /\ call.prev = Verdict("unsafe")
    /\ nl_data = NLDict(List(<<>>))
    /\ tracker = TrackerState(Num(1), Num(1))

(***************************************************************************)
(* The messages of an action normalized for bounded actions: up to         *)
(* MaxMessages messages whose last-modified timestamps are missing, in     *)
(* seconds or in milliseconds.                                             *)
(***************************************************************************)
MaxMessages == 3

Message(body, lastModifiedTimestamp) ==
    [k |-> "dict", empty |-> FALSE, title |-> Absent, body |-> body,
     messageType |-> Text("update"), lastModifiedTimestamp |-> lastModifiedTimestamp]

\* No timestamp, 100 and 200 seconds, 1.7 * 10^12 milliseconds and
\* 1.8 * 10^9 seconds.
LastModifiedTimestamps == {Absent, Num(100), Num(200), Dec(17, 11), Dec(18, 8)}

BodyOf(i) == Text(CASE i = 1 -> "a" [] i = 2 -> "b" [] i = 3 -> "c" [] OTHER -> "d")

\* The messages of an action carry their position as body.
Lettered(messages) == [i \in 1..Len(messages) |-> [messages[i] EXCEPT !.body = BodyOf(i)]]

MessageLists ==
    {Lettered(l) :
        l \in SeqsUpTo({Message(None, ts) : ts \in LastModifiedTimestamps}, MaxMessages)}

InitMessages ==
    /\ config = None /\ tracker = None /\ now = 0
    /\ sensor_states = NoSensorStates
    /\ nl_data = None /\ amber_data = None /\ burgernet_data = None
    /\ call \in {[fn |-> "_prepare_burgernet_action", pc |-> "call",
                  action |-> [Action(AreaDict(Num(2), Num(6)), Bool(b), Num(100))
                                  EXCEPT !.messages = List(l)],
                  lat0 |-> RefLat, lon0 |-> RefLon, max_radius_m |-> None, val |-> None] :
                    l \in MessageLists, b \in BOOLEAN}

PrepareBurgernetAction ==
    /\ call.fn = "_prepare_burgernet_action" /\ call.pc = "call"
    /\ call' = [call EXCEPT !.pc = "done",
                            !.val = _prepare_burgernet_action(call.action, call.lat0,
                                                              call.lon0, call.max_radius_m)]
    /\ UNCHANGED <<config, tracker, now, nl_data, amber_data, burgernet_data, sensor_states>>

NextMessages == PrepareBurgernetAction

SpecMessages == InitMessages /\ [][NextMessages]_vars

(***************************************************************************)
(* What the normalization of the messages is to return.                    *)
(***************************************************************************)
MessagesDone == call.fn = "_prepare_burgernet_action" /\ call.pc = "done"

RawMessages == call.action.messages.items

\* The raw messages that carry a last-modified timestamp.
Dated == {i \in 1..Len(RawMessages) : RawMessages[i].lastModifiedTimestamp.k = "num"}

\* The last-modified instant of a raw message, in seconds.
ModifiedSeconds(msg) ==
    IF ExceedsMsThreshold(msg.lastModifiedTimestamp)
    THEN Over1000(msg.lastModifiedTimestamp)
    ELSE msg.lastModifiedTimestamp

\* C13: the normalized messages are ordered by last-modified instant
\* ascending and the latest message of the action is taken from the message
\* with the maximum last-modified instant, also when the timestamps mix
\* seconds and milliseconds or some are missing.
C13_LatestIsMax ==
    MessagesDone =>
        /\ Len(call.val.messages) = Len(RawMessages)
        /\ \A i, j \in 1..Len(call.val.messages) :
              (/\ i < j
               /\ call.val.messages[i].last_modified # None
               /\ call.val.messages[j].last_modified # None)
              => ~NumLess(call.val.messages[j].last_modified.ts,
                          call.val.messages[i].last_modified.ts)
        /\ Dated # {} =>
              \E i \in Dated :
                 /\ \A j \in Dated : ~NumLess(ModifiedSeconds(RawMessages[i]),
                                              ModifiedSeconds(RawMessages[j]))
                 /\ call.val.latest_message_time = LocalIso(ModifiedSeconds(RawMessages[i]))
                 /\ call.val.latest_message \in
                       {RawMessages[i].body,
                        [k |-> "fstr", text |-> RawMessages[i].body,
                         suffix |-> " (case closed)"]}

(***************************************************************************)
(* The distance to a polygon computed for bounded inputs: polygons of up   *)
(* to MaxRing vertices and points of the grid.                             *)
(***************************************************************************)
MaxRing == 3

InitDist ==
    /\ NoFeeds
    /\ call \in {[fn |-> "_min_distance_to_polygon_m", pc |-> "call", lat |-> x[1],
                  lon |-> x[2], polygon |-> p, val |-> None] :
                    x \in TestCoords \X TestCoords, p \in SeqsUpTo(VertexPoints, MaxRing)}

MinDistanceToPolygon ==
    /\ call.fn = "_min_distance_to_polygon_m" /\ call.pc = "call"
    /\ call' = [call EXCEPT !.pc = "done",
                            !.val = _min_distance_to_polygon_m(call.lat, call.lon,
                                                               call.polygon)]
    /\ UNCHANGED <<config, tracker, now, nl_data, amber_data, burgernet_data, sensor_states>>

NextDist == MinDistanceToPolygon

SpecDist == InitDist /\ [][NextDist]_vars

(***************************************************************************)
(* What the distance to a polygon is to be.                                *)
(***************************************************************************)
DistDone == call.fn = "_min_distance_to_polygon_m" /\ call.pc = "done"

\* The distance from the point of the call to the cyclic edge that starts at
\* vertex i.
EdgeDistance(i) ==
    LET a == call.polygon[i]
        b == call.polygon[(i % Len(call.polygon)) + 1]
    IN  _distance_point_to_segment_m(call.lat, call.lon, a[1], a[2], b[1], b[2])

DistEqual(x, y) == ~DistLess(x, y) /\ ~DistLess(y, x)

\* C14: for one vertex the result is haversine(point, vertex); otherwise it
\* is the minimum of the segment distance over all cyclic edges, the closing
\* edge included: it is the distance to some edge and not larger than the
\* distance to any edge; an edge of length zero counts with the distance to
\* its endpoint.
C14_MinOverCyclicEdges ==
    DistDone =>
        LET n == Len(call.polygon)
        IN  IF n = 1
            THEN call.val = haversine(call.lat, call.lon, call.polygon[1][1],
                                      call.polygon[1][2])
            ELSE /\ \A i \in 1..n : ~DistLess(EdgeDistance(i), call.val)
                 /\ n = 0 => call.val = Infinity
                 /\ n > 0 => \E i \in 1..n : DistEqual(call.val, EdgeDistance(i))
                 /\ \A i \in 1..n :
                       call.polygon[i] = call.polygon[(i % n) + 1] =>
                           DistEqual(EdgeDistance(i),
                                     haversine(call.lat, call.lon, call.polygon[i][1],
                                               call.polygon[i][2]))

\* The distance from (3, 2) to the triangle (0,0), (0,4), (4,4) is the one to
\* its closing edge, the diagonal: 1 / sqrt(2).
C14_Witness ==
    /\ DistDone
    /\ call.lat = 3 /\ call.lon = 2
    /\ call.polygon = << <<0, 0>>, <<0, 4>>, <<4, 4>> >>
    /\ DistEqual(call.val, Dist2(1, 2))
    /\ DistLess(call.val, EdgeDistance(1)) /\ DistLess(call.val, EdgeDistance(2))

(***************************************************************************)
(* The aggregate binary sensor: NLActiveAlertBinarySensor.                 *)
(***************************************************************************)
\* A state of the state machine: state.state is its string.
State(state) == [k |-> "state", state |-> state]

\* The entities in the order in which is_on reads them.
is_on_entities ==
    <<Text("sensor.amber_alert"), Text("sensor.burgernet_search"), Text("sensor.nl_alert")>>

\* A plausible slip: every state but "safe" counts.
RECURSIVE is_on_loop_notsafe(_)
is_on_loop_notsafe(i) ==
    IF i > Len(is_on_entities) THEN FALSE
    ELSE LET state == hass_states_get(is_on_entities[i])
         IN  IF Truthy(state) /\ state.state # "safe" THEN TRUE
             ELSE is_on_loop_notsafe(i + 1)

\* for entity in [...]: if state and state.state == "unsafe": return True
RECURSIVE is_on_loop(_)
is_on_loop(i) ==
    IF i > Len(is_on_entities) THEN FALSE
    ELSE LET state == hass_states_get(is_on_entities[i])
         IN  IF Truthy(state) /\ state.state = "unsafe" THEN TRUE
             ELSE is_on_loop(i + 1)

is_on == is_on_loop(1)

(***************************************************************************)
(* The binary sensor while the states of the entities change.  A change    *)
(* calls _state_listener, which schedules the write of the binary sensor's *)
(* state; the write reads is_on.                                           *)
(***************************************************************************)
StateStrings == {"unsafe", "safe", "unavailable", "unknown", "active", "closed"}

InitBinary ==
    /\ config = None /\ now = 0
    /\ nl_data = None /\ amber_data = None /\ burgernet_data = None
    /\ tracker = None
    /\ sensor_states = NoSensorStates
    /\ call = [fn |-> "is_on", pc |-> "call", val |-> FALSE]

\* An entity gets a state, or is removed from the state machine.
StateChanged ==
    /\ \E e \in SourceEntities, v \in {None} \cup {State(x) : x \in StateStrings} :
          /\ sensor_states[e] # v
          /\ sensor_states' = [sensor_states EXCEPT ![e] = v]
    /\ call' = [fn |-> "is_on", pc |-> "call", val |-> FALSE]
    /\ UNCHANGED <<config, tracker, now, nl_data, amber_data, burgernet_data>>

IsOn ==
    /\ call.fn = "is_on" /\ call.pc = "call"
    /\ call' = [call EXCEPT !.pc = "done", !.val = is_on]
    /\ UNCHANGED <<config, tracker, now, nl_data, amber_data, burgernet_data, sensor_states>>

NextBinary == StateChanged \/ IsOn

SpecBinary == InitBinary /\ [][NextBinary]_vars

(***************************************************************************)
(* What the binary sensor is to report.                                    *)
(***************************************************************************)
IsOnDone == call.fn = "is_on" /\ call.pc = "done"

\* C15: the binary sensor is on if and only if one of the three source
\* entities exists with state exactly "unsafe"; a missing entity or one in
\* another state does not turn it on.
C15_OnIffSomeUnsafe ==
    IsOnDone =>
        (call.val <=> \E e \in SourceEntities : sensor_states[e] = State("unsafe"))

\* The binary sensor is on with sensor.nl_alert "unsafe", sensor.amber_alert
\* missing and sensor.burgernet_search unavailable.
C15_Witness ==
    /\ IsOnDone
    /\ call.val
    /\ sensor_states["sensor.amber_alert"] = None
    /\ sensor_states["sensor.burgernet_search"] = State("unavailable")
    /\ sensor_states["sensor.nl_alert"] = State("unsafe")

=============================================================================
